---------------------------- MODULE Spec2Model ----------------------------
(***************************************************************************)
(* OpenTelemetry instrumentation of openai.ChatCompletion.create           *)
(* (src/src/opentelemetry/instrumentation/openai/__init__.py).             *)
(*                                                                         *)
(* Python values are modelled as follows.  Scalars (str, int, float, bool) *)
(* are TLA+ strings holding their Python literal ("1.0", "0", "False",     *)
(* "inf"); a dict is a function whose domain is its set of keys; a list is *)
(* a sequence.  A value handed back by a callable is tagged with its       *)
(* Python type, [ty |-> "dict", items |-> d], so that a value that is not  *)
(* subscriptable can be told from a dict; an exception is                  *)
(* [ty |-> <class>, arg |-> <argument>].                                   *)
(***************************************************************************)
EXTENDS Integers, Sequences, FiniteSets, TLC

VARIABLES create, lifecycle, spans, pc, request, context, seen, resolved,
          layers, stack, delegated, outcome

vars == <<create, lifecycle, spans, pc, request, context, seen, resolved,
          layers, stack, delegated, outcome>>

(***************************************************************************)
(* Bounds of the model.                                                    *)
(***************************************************************************)
\* invocations of the target method (they may overlap in time)
MaxCalls == 2
\* wrappers stacked on the method slot by repeated _instrument()
MaxWraps == 2
\* lifecycle operations (_instrument / _uninstrument) in one run
MaxLifecycle == 3
\* length of a request's messages list
MaxMsgs == 2
\* length of a response's choices list
MaxChoices == 2

Calls == 1..MaxCalls

(***************************************************************************)
(* Python values.                                                          *)
(***************************************************************************)
None == [ty |-> "NoneType"]
Dict(d) == [ty |-> "dict", items |-> d]
Generator == [ty |-> "generator"]
KeyError(k) == [ty |-> "KeyError", arg |-> k]
TypeError(t) == [ty |-> "TypeError", arg |-> t]
Returned(v) == [kind |-> "return", val |-> v]
Raised(e) == [kind |-> "raise", val |-> e]
NoOutcome == [kind |-> "none"]
NoAttributes == [k \in {} |-> ""]

\* bool(v) of the values the suppression key can hold
Truthy(v) == v \notin {"None", "False", "0", "0.0", ""}

(***************************************************************************)
(* The tracing API: Span.set_attribute and the span the tracer starts.     *)
(***************************************************************************)
set_attribute(attributes, key, value) ==
    [k \in DOMAIN attributes \cup {key} |->
        IF k = key THEN value ELSE attributes[k]]

name == "openai.chat"


(***************************************************************************)
(* Request-side projection, lines 60-80 of _instrumented_create.           *)
(***************************************************************************)
\* a variant: kwargs.get(key) or default, which drops falsy values
value_or_default_falsy(kwargs, key, default) ==
    IF key \in DOMAIN kwargs /\ Truthy(kwargs[key]) THEN kwargs[key] ELSE default

\* kwargs[key] if key in kwargs else default
value_or_default(kwargs, key, default) ==
    IF key \in DOMAIN kwargs THEN kwargs[key] ELSE default

\* the optional request fields with the default each line writes, in the
\* order of lines 61-70
OptionalFields ==
    << [field |-> "temperature",       default |-> "1.0"],
       [field |-> "top_p",             default |-> "1.0"],
       [field |-> "n",                 default |-> "1"],
       [field |-> "stream",            default |-> "False"],
       [field |-> "stop",              default |-> ""],
       [field |-> "max_tokens",        default |-> "inf"],
       [field |-> "presence_penalty",  default |-> "0.0"],
       [field |-> "frequency_penalty", default |-> "0.0"],
       [field |-> "logit_bias",        default |-> ""],
       [field |-> "name",              default |-> ""] >>

RECURSIVE project_optional(_, _, _)
project_optional(attributes, kwargs, fields) ==
    IF fields = <<>> THEN attributes
    ELSE LET f == Head(fields)
         IN project_optional(
                set_attribute(attributes, name \o "." \o f.field,
                              value_or_default(kwargs, f.field, f.default)),
                kwargs, Tail(fields))

\* a variant: each line is put in front of the lines gathered so far
RECURSIVE format_messages_prepending(_, _)
format_messages_prepending(messages_str, messages) ==
    IF messages = <<>> THEN [val |-> messages_str, exc |-> None]
    ELSE LET message == Head(messages)
         IN IF "role" \notin DOMAIN message
            THEN [val |-> messages_str, exc |-> KeyError("role")]
            ELSE IF "content" \notin DOMAIN message
            THEN [val |-> messages_str, exc |-> KeyError("content")]
            ELSE format_messages_prepending(
                     message["role"] \o ": " \o message["content"] \o "\n"
                                     \o messages_str,
                     Tail(messages))

\* the loop of lines 76-78; a message without 'role' or 'content' raises
RECURSIVE format_messages(_, _)
format_messages(messages_str, messages) ==
    IF messages = <<>> THEN [val |-> messages_str, exc |-> None]
    ELSE LET message == Head(messages)
         IN IF "role" \notin DOMAIN message
            THEN [val |-> messages_str, exc |-> KeyError("role")]
            ELSE IF "content" \notin DOMAIN message
            THEN [val |-> messages_str, exc |-> KeyError("content")]
            ELSE format_messages(
                     messages_str \o message["role"] \o ": "
                                  \o message["content"] \o "\n",
                     Tail(messages))

\* lines 60-80: the attributes written, and the exception that ended the
\* block early (None when it ran to line 80)
project_request(attributes, kwargs) ==
    IF "model" \notin DOMAIN kwargs
    THEN [attributes |-> attributes, exc |-> KeyError("model")]
    ELSE LET a1 == set_attribute(attributes, name \o ".model", kwargs["model"])
             a2 == project_optional(a1, kwargs, OptionalFields)
         IN IF "messages" \notin DOMAIN kwargs
            THEN [attributes |-> a2, exc |-> KeyError("messages")]
            ELSE LET m == format_messages("", kwargs["messages"])
                 IN IF m.exc # None
                    THEN [attributes |-> a2, exc |-> m.exc]
                    ELSE [attributes |->
                              set_attribute(a2, name \o ".messages", m.val),
                          exc |-> None]

(***************************************************************************)
(* Response-side projection, lines 84-94 of _instrumented_create.          *)
(***************************************************************************)
\* obj[f] for each f of fields in turn, written under prefix; a missing key
\* raises and leaves the attributes written so far
RECURSIVE project_fields(_, _, _, _)
project_fields(attributes, obj, prefix, fields) ==
    IF fields = <<>> THEN [attributes |-> attributes, exc |-> None]
    ELSE IF Head(fields) \notin DOMAIN obj
    THEN [attributes |-> attributes, exc |-> KeyError(Head(fields))]
    ELSE project_fields(
             set_attribute(attributes, prefix \o Head(fields), obj[Head(fields)]),
             obj, prefix, Tail(fields))

\* a variant: the choices are numbered from 1, as enumerate(..., 1) would
project_choice_from_one(attributes, choice, index) ==
    LET prefix == name \o ".response.choices." \o ToString(index + 1) \o "."
    IN IF "message" \notin DOMAIN choice
       THEN [attributes |-> attributes, exc |-> KeyError("message")]
       ELSE LET m == project_fields(attributes, choice["message"],
                                    prefix \o "message.", <<"role", "content">>)
            IN IF m.exc # None THEN m
               ELSE project_fields(m.attributes, choice, prefix,
                                   <<"finish_reason">>)

\* lines 88-90 for one choice
project_choice(attributes, choice, index) ==
    LET prefix == name \o ".response.choices." \o ToString(index) \o "."
    IN IF "message" \notin DOMAIN choice
       THEN [attributes |-> attributes, exc |-> KeyError("message")]
       ELSE LET m == project_fields(attributes, choice["message"],
                                    prefix \o "message.", <<"role", "content">>)
            IN IF m.exc # None THEN m
               ELSE project_fields(m.attributes, choice, prefix,
                                   <<"finish_reason">>)

\* the loop of lines 87-90: enumerate(response["choices"])
RECURSIVE project_choices(_, _, _)
project_choices(attributes, choices, index) ==
    IF choices = <<>> THEN [attributes |-> attributes, exc |-> None]
    ELSE LET c == project_choice(attributes, Head(choices), index)
         IN IF c.exc # None THEN c
            ELSE project_choices(c.attributes, Tail(choices), index + 1)

\* lines 84-94 on the value the wrapped callable returned
project_response(attributes, response) ==
    IF response.ty # "dict"
    THEN [attributes |-> attributes, exc |-> TypeError(response.ty)]
    ELSE
    LET r == response.items
        head == project_fields(attributes, r, name \o ".response.",
                               <<"id", "object", "created">>)
    IN IF head.exc # None THEN head
       ELSE IF "choices" \notin DOMAIN r
       THEN [attributes |-> head.attributes, exc |-> KeyError("choices")]
       ELSE LET cs == project_choices(head.attributes, r["choices"], 0)
            IN IF cs.exc # None THEN cs
               ELSE IF "usage" \notin DOMAIN r
               THEN [attributes |-> cs.attributes, exc |-> KeyError("usage")]
               ELSE project_fields(cs.attributes, r["usage"],
                        name \o ".response.usage.",
                        <<"prompt_tokens", "completion_tokens", "total_tokens">>)


(***************************************************************************)
(* Inputs: the requests callers make and what the original method does.    *)
(***************************************************************************)
SeqsUpTo(S, n) == UNION {[1..m -> S] : m \in 0..n}

MsgUserHi == [role |-> "user", content |-> "Hi"]
MsgAssistantHello == [role |-> "assistant", content |-> "Hello"]
MsgTwoLines == [role |-> "system", content |-> "a\nb"]
MsgNoContent == [role |-> "user"]
Messages == {MsgUserHi, MsgAssistantHello, MsgTwoLines, MsgNoContent}

\* supplied values that are falsy or zero, and supplied values that are not
FalsyValues ==
    [temperature |-> "0", top_p |-> "0", n |-> "0", stream |-> "False",
     stop |-> "", max_tokens |-> "0", presence_penalty |-> "0.0",
     frequency_penalty |-> "0", logit_bias |-> "", name |-> ""]
OtherValues ==
    [temperature |-> "0.7", top_p |-> "0.5", n |-> "2", stream |-> "True",
     stop |-> "END", max_tokens |-> "16", presence_penalty |-> "0.5",
     frequency_penalty |-> "-0.5", logit_bias |-> "{50256: -100}",
     name |-> "alice"]

\* the keyword arguments: required fields `required`, plus the optional
\* fields `present` with the values of `values`
Kwargs(required, present, values) ==
    [k \in DOMAIN required \cup present |->
        IF k \in DOMAIN required THEN required[k] ELSE values[k]]

ModelAndMessages(msgs) == [model |-> "gpt-3.5-turbo", messages |-> msgs]
Request(a, kw) == [args |-> a, kwargs |-> kw]

ReqBasic == Request(<<>>, ModelAndMessages(<<MsgUserHi>>))
ReqTuned ==
    Request(<<"positional">>,
            Kwargs(ModelAndMessages(<<MsgUserHi, MsgAssistantHello>>),
                   {"temperature", "n", "stream"}, FalsyValues))
ReqNoModel == Request(<<>>, [messages |-> <<MsgUserHi>>])
ReqNoMessages ==
    Request(<<>>, Kwargs([model |-> "gpt-4"], {"top_p"}, OtherValues))
ReqBadMessage == Request(<<>>, ModelAndMessages(<<MsgNoContent>>))

Requests == {ReqBasic, ReqTuned, ReqNoModel, ReqNoMessages, ReqBadMessage}

WideRequests ==
    Requests
    \cup {Request(<<>>, Kwargs(ModelAndMessages(<<MsgUserHi>>), present, values)) :
            present \in SUBSET DOMAIN FalsyValues,
            values \in {FalsyValues, OtherValues}}
    \cup {Request(<<>>, ModelAndMessages(msgs)) : msgs \in SeqsUpTo(Messages, MaxMsgs)}
    \cup {Request(<<>>, [messages |-> msgs]) : msgs \in SeqsUpTo(Messages, MaxMsgs)}

ChoiceStop ==
    [message |-> [role |-> "assistant", content |-> "Hello"],
     finish_reason |-> "stop"]
ChoiceLength ==
    [message |-> [role |-> "assistant", content |-> "Hi there"],
     finish_reason |-> "length"]
ChoiceNoContent ==
    [message |-> [role |-> "assistant"], finish_reason |-> "function_call"]
Choices == {ChoiceStop, ChoiceLength, ChoiceNoContent}

Usage == [prompt_tokens |-> "9", completion_tokens |-> "12", total_tokens |-> "21"]
Completion(choices) ==
    [id |-> "chatcmpl-123", object |-> "chat.completion",
     created |-> "1677652288", choices |-> choices, usage |-> Usage]
Without(d, key) == [k \in DOMAIN d \ {key} |-> d[k]]

RateLimitError == [ty |-> "RateLimitError", arg |-> "rate limit reached"]

\* what a call of the original method can end in
Outcomes ==
    { Returned(Dict(Completion(<<ChoiceStop>>))),
      Returned(Dict(Without(Completion(<<ChoiceStop>>), "id"))),
      Returned(Generator),
      Raised(RateLimitError) }

WideOutcomes ==
    Outcomes
    \cup {Returned(Dict(Completion(cs))) : cs \in SeqsUpTo(Choices, MaxChoices)}
    \cup {Returned(Dict(Without(Completion(<<ChoiceStop, ChoiceLength>>), key))) :
            key \in {"id", "object", "created", "choices", "usage"}}
    \cup {Returned(Dict([Completion(<<ChoiceStop>>) EXCEPT
                            !.usage = Without(Usage, "total_tokens")])),
          Returned(None)}

\* the values the suppression key holds in a caller's context; "None" is
\* what get_value returns when the key was never set
ContextValues == {"None", "False", "True"}

(***************************************************************************)
(* The state.                                                              *)
(*   create      the wrappers now stacked on openai.ChatCompletion.create  *)
(*               (0: the slot holds the original method)                   *)
(*   lifecycle   the _instrument/_uninstrument calls made so far           *)
(*   spans       every span the tracer has started, in order               *)
(* and, for each invocation i of the target method,                        *)
(*   pc          "idle", "call" (about to call the next callable down),    *)
(*               "unwind" (a value or exception travels up), "done"        *)
(*   request     the caller's positional and keyword arguments             *)
(*   context     the value of the suppression key in the caller's context  *)
(*   seen        the lifecycle calls that preceded the invocation          *)
(*   resolved    the wrappers on the callable the invocation looked up     *)
(*   layers      how many of them are still to be entered                  *)
(*   stack       the spans of the wrappers entered and not yet left        *)
(*   delegated   the calls the original method received, with how each     *)
(*               ended                                                     *)
(*   outcome     what is travelling up; what the caller got when "done"    *)
(***************************************************************************)
Init ==
    /\ create = 0
    /\ lifecycle = <<>>
    /\ spans = <<>>
    /\ pc = [i \in Calls |-> "idle"]
    /\ request = [i \in Calls |-> ReqBasic]
    /\ context = [i \in Calls |-> "None"]
    /\ seen = [i \in Calls |-> <<>>]
    /\ resolved = [i \in Calls |-> 0]
    /\ layers = [i \in Calls |-> 0]
    /\ stack = [i \in Calls |-> <<>>]
    /\ delegated = [i \in Calls |-> <<>>]
    /\ outcome = [i \in Calls |-> NoOutcome]

\* wrapt.wrap_function_wrapper and opentelemetry's unwrap on the method slot
wrap_function_wrapper(slot) == slot + 1
\* a variant: unwrap leaves the slot as it is
unwrap_nothing(slot) == slot
unwrap(slot) == IF slot > 0 THEN slot - 1 ELSE slot

\* OpenAIInstrumentor._instrument -> _instrument_chat(tracer)
_instrument ==
    /\ Len(lifecycle) < MaxLifecycle
    /\ create < MaxWraps
    /\ create' = wrap_function_wrapper(create)
    /\ lifecycle' = Append(lifecycle, "instrument")
    /\ UNCHANGED <<spans, pc, request, context, seen, resolved, layers, stack,
                   delegated, outcome>>

\* OpenAIInstrumentor._uninstrument -> _uninstrument()
_uninstrument ==
    /\ Len(lifecycle) < MaxLifecycle
    /\ create' = unwrap(create)
    /\ lifecycle' = Append(lifecycle, "uninstrument")
    /\ UNCHANGED <<spans, pc, request, context, seen, resolved, layers, stack,
                   delegated, outcome>>

\* a caller calls openai.ChatCompletion.create(*args, **kwargs): the
\* attribute lookup yields whatever the slot holds now
invoke(i, req, ctx) ==
    /\ pc[i] = "idle"
    /\ \A j \in Calls : j < i => pc[j] # "idle"
    /\ pc' = [pc EXCEPT ![i] = "call"]
    /\ request' = [request EXCEPT ![i] = req]
    /\ context' = [context EXCEPT ![i] = ctx]
    /\ seen' = [seen EXCEPT ![i] = lifecycle]
    /\ resolved' = [resolved EXCEPT ![i] = create]
    /\ layers' = [layers EXCEPT ![i] = create]
    /\ UNCHANGED <<create, lifecycle, spans, stack, delegated, outcome>>

\* a variant: the suppression key is not read
never_suppressed(ctx) == FALSE

\* line 55: context_api.get_value(_SUPPRESS_INSTRUMENTATION_KEY) is truthy
suppressed(ctx) == Truthy(ctx)

\* a variant: a span still open is used instead of starting one
start_unless_span_open(started, span_name, i) ==
    IF \E k \in 1..Len(started) : ~started[k].ended
    THEN started
    ELSE Append(started, [name |-> span_name, attributes |-> NoAttributes,
                          ended |-> FALSE, owner |-> i])

\* line 59: tracer.start_as_current_span(name) starts a new span
start_as_current_span(started, span_name, i) ==
    Append(started, [name |-> span_name, attributes |-> NoAttributes,
                     ended |-> FALSE, owner |-> i])

\* a variant: span.end() after the block instead of a with statement, so
\* that an exception skips it
end_after_block(span, how) ==
    IF how.kind = "return" THEN [span EXCEPT !.ended = TRUE] ELSE span

\* line 59: leaving the with block ends the span, however the block ended
with_exit(span, how) == [span EXCEPT !.ended = TRUE]

\* a variant: one span variable shared by all invocations, holding the
\* span started last
shared_span(i) == Len(spans)

\* the `span` local of the innermost wrapper invocation i is inside
span_of(i) == stack[i][Len(stack[i])]

\* where the value or exception goes next
up(stk) == IF stk = <<>> THEN "done" ELSE "unwind"

\* _instrumented_create from its entry to the call of line 82
_instrumented_create_enter(i) ==
    /\ pc[i] = "call"
    /\ layers[i] > 0
    /\ IF suppressed(context[i])
       THEN /\ outcome' = [outcome EXCEPT ![i] = Returned(None)]
            /\ pc' = [pc EXCEPT ![i] = up(stack[i])]
            /\ UNCHANGED <<spans, stack, layers>>
       ELSE LET started == start_as_current_span(spans, name, i)
                span == Len(started)
                p == project_request(started[span].attributes,
                                     request[i].kwargs)
                written == [started EXCEPT ![span].attributes = p.attributes]
            IN IF p.exc = None
               THEN /\ spans' = written
                    /\ stack' = [stack EXCEPT ![i] = Append(@, span)]
                    /\ layers' = [layers EXCEPT ![i] = @ - 1]
                    /\ UNCHANGED <<pc, outcome>>
               ELSE /\ spans' = [written EXCEPT
                                    ![span] = with_exit(@, Raised(p.exc))]
                    /\ outcome' = [outcome EXCEPT ![i] = Raised(p.exc)]
                    /\ pc' = [pc EXCEPT ![i] = up(stack[i])]
                    /\ UNCHANGED <<stack, layers>>
    /\ UNCHANGED <<create, lifecycle, request, context, seen, resolved,
                   delegated>>

\* the original openai.ChatCompletion.create runs and returns or raises
original(i, how) ==
    /\ pc[i] = "call"
    /\ layers[i] = 0
    /\ delegated' = [delegated EXCEPT ![i] =
                        Append(@, [args |-> request[i].args,
                                   kwargs |-> request[i].kwargs,
                                   outcome |-> how])]
    /\ outcome' = [outcome EXCEPT ![i] = how]
    /\ pc' = [pc EXCEPT ![i] = up(stack[i])]
    /\ UNCHANGED <<create, lifecycle, spans, request, context, seen, resolved,
                   layers, stack>>

\* a variant: an except clause around line 82 that swallows the exception
after_call_catching(attributes, how) ==
    IF how.kind = "raise"
    THEN [attributes |-> attributes, outcome |-> Returned(None)]
    ELSE LET p == project_response(attributes, how.val)
         IN [attributes |-> p.attributes,
             outcome |-> IF p.exc = None THEN how ELSE Raised(p.exc)]

\* lines 82-97 once wrapped(*args, **kwargs) has returned or raised: the
\* attributes written and what leaves the wrapper
after_call(attributes, how) ==
    IF how.kind = "raise"
    THEN [attributes |-> attributes, outcome |-> how]
    ELSE LET p == project_response(attributes, how.val)
         IN [attributes |-> p.attributes,
             outcome |-> IF p.exc = None THEN how ELSE Raised(p.exc)]

\* _instrumented_create from the return of line 82 to its own exit
_instrumented_create_exit(i) ==
    /\ pc[i] = "unwind"
    /\ LET span == span_of(i)
           r == after_call(spans[span].attributes, outcome[i])
       IN /\ spans' = [spans EXCEPT ![span] =
                          with_exit([@ EXCEPT !.attributes = r.attributes],
                                    r.outcome)]
          /\ outcome' = [outcome EXCEPT ![i] = r.outcome]
    /\ stack' = [stack EXCEPT ![i] = SubSeq(@, 1, Len(@) - 1)]
    /\ pc' = [pc EXCEPT ![i] = up(stack'[i])]
    /\ UNCHANGED <<create, lifecycle, request, context, seen, resolved,
                   layers, delegated>>

(***************************************************************************)
(* The lifecycle: _instrument and _uninstrument in any order, around and   *)
(* during one invocation of the target method.                             *)
(***************************************************************************)
Next ==
    \/ _instrument
    \/ _uninstrument
    \/ \E req \in Requests, ctx \in ContextValues : invoke(1, req, ctx)
    \/ _instrumented_create_enter(1)
    \/ \E how \in Outcomes : original(1, how)
    \/ _instrumented_create_exit(1)

Spec == Init /\ [][Next]_vars

\* the state once OpenAIInstrumentor()._instrument() has run
Instrumented ==
    /\ create = 1
    /\ lifecycle = <<"instrument">>
    /\ spans = <<>>
    /\ pc = [i \in Calls |-> "idle"]
    /\ request = [i \in Calls |-> ReqBasic]
    /\ context = [i \in Calls |-> "None"]
    /\ seen = [i \in Calls |-> <<>>]
    /\ resolved = [i \in Calls |-> 0]
    /\ layers = [i \in Calls |-> 0]
    /\ stack = [i \in Calls |-> <<>>]
    /\ delegated = [i \in Calls |-> <<>>]
    /\ outcome = [i \in Calls |-> NoOutcome]

(***************************************************************************)
(* Overlapping invocations of the method while it is instrumented once:    *)
(* their steps interleave in every order.                                  *)
(***************************************************************************)
ConcRequests == {ReqBasic, ReqTuned, ReqNoModel}
ConcContextValues == {"None", "True"}
ConcOutcomes ==
    { Returned(Dict(Completion(<<ChoiceStop>>))),
      Returned(Dict(Completion(<<ChoiceLength, ChoiceStop>>))),
      Returned(Dict(Without(Completion(<<ChoiceStop>>), "usage"))),
      Raised(RateLimitError) }

ConcNext ==
    \/ \E i \in Calls, req \in ConcRequests, ctx \in ConcContextValues :
           invoke(i, req, ctx)
    \/ \E i \in Calls : _instrumented_create_enter(i)
    \/ \E i \in Calls, how \in ConcOutcomes : original(i, how)
    \/ \E i \in Calls : _instrumented_create_exit(i)

ConcSpec == Instrumented /\ [][ConcNext]_vars

(***************************************************************************)
(* The projector on its own: one invocation of the method instrumented     *)
(* once, over the wide families of requests and responses.                 *)
(***************************************************************************)
ProjNext ==
    \/ \E req \in WideRequests : invoke(1, req, "None")
    \/ _instrumented_create_enter(1)
    \/ \E how \in (IF request[1] = ReqTuned THEN WideOutcomes ELSE Outcomes) :
           original(1, how)
    \/ _instrumented_create_exit(1)

ProjSpec == Instrumented /\ [][ProjNext]_vars


(***************************************************************************)
(* Vocabulary of the properties.                                           *)
(***************************************************************************)
Range(f) == {f[x] : x \in DOMAIN f}

\* the spans invocation i started
Owned(i) == {k \in 1..Len(spans) : spans[k].owner = i}

\* the suppression flag is set in the invocation's context
FlagSet(i) == context[i] = "True"

\* the attribute keys of the request and of the fixed part of the response
RequestKeys ==
    {"openai.chat.model", "openai.chat.temperature", "openai.chat.top_p",
     "openai.chat.n", "openai.chat.stream", "openai.chat.stop",
     "openai.chat.max_tokens", "openai.chat.presence_penalty",
     "openai.chat.frequency_penalty", "openai.chat.logit_bias",
     "openai.chat.name", "openai.chat.messages"}
ResponseScalarKeys ==
    {"openai.chat.response.id", "openai.chat.response.object",
     "openai.chat.response.created",
     "openai.chat.response.usage.prompt_tokens",
     "openai.chat.response.usage.completion_tokens",
     "openai.chat.response.usage.total_tokens"}

WellFormedMessages(msgs) ==
    \A j \in 1..Len(msgs) : {"role", "content"} \subseteq DOMAIN msgs[j]

\* model and messages present, every message a {role, content} pair
ValidRequest(kwargs) ==
    /\ {"model", "messages"} \subseteq DOMAIN kwargs
    /\ WellFormedMessages(kwargs["messages"])

\* the original method was called and raised / returned
OriginalRaised(i) ==
    delegated[i] # <<>> /\ delegated[i][1].outcome.kind = "raise"
OriginalReturned(i) ==
    delegated[i] # <<>> /\ delegated[i][1].outcome.kind = "return"

(***************************************************************************)
(* C1.  Transparency: a non-suppressed invocation of the instrumented      *)
(* method with a valid request calls the original exactly once with the    *)
(* caller's arguments and hands the caller the value the original          *)
(* returned, whatever that value is.                                        *)
(***************************************************************************)
C1_Transparency ==
    \A i \in Calls :
        (pc[i] = "done" /\ resolved[i] >= 1 /\ ~FlagSet(i)
            /\ ValidRequest(request[i].kwargs))
        => /\ Len(delegated[i]) = 1
           /\ delegated[i][1].args = request[i].args
           /\ delegated[i][1].kwargs = request[i].kwargs
           /\ OriginalReturned(i) => outcome[i] = delegated[i][1].outcome

(***************************************************************************)
(* C2.  Suppression: when the flag is set as the instrumented method is    *)
(* invoked, the original is never called, no span is started and the       *)
(* caller gets None, whatever the arguments.                                *)
(***************************************************************************)
C2_Suppression ==
    \A i \in Calls :
        (pc[i] # "idle" /\ resolved[i] >= 1 /\ FlagSet(i))
        => /\ delegated[i] = <<>>
           /\ Owned(i) = {}
           /\ pc[i] = "done" => outcome[i] = Returned(None)
           /\ pc[i] # "unwind"

C2_Witness ==
    \E i \in Calls :
        /\ pc[i] = "done" /\ resolved[i] >= 1 /\ FlagSet(i)
        /\ request[i] = ReqNoModel
        /\ outcome[i] = Returned(None)
        /\ delegated[i] = <<>>

(***************************************************************************)
(* C3.  Every non-suppressed invocation of the method instrumented once    *)
(* produces exactly one span, named "openai.chat", whether the request is  *)
(* valid or not and whether the original returns or raises; N such         *)
(* invocations leave exactly N spans.                                       *)
(***************************************************************************)
\* the wrapper has run past its first lines
Started(i) ==
    \/ pc[i] \in {"unwind", "done"}
    \/ pc[i] = "call" /\ layers[i] < resolved[i]

C3_OneSpanPerInvocation ==
    /\ \A i \in Calls :
           (Started(i) /\ resolved[i] = 1 /\ ~FlagSet(i))
           => /\ Cardinality(Owned(i)) = 1
              /\ \A k \in Owned(i) : spans[k].name = "openai.chat"
    /\ (\A i \in Calls : resolved[i] = 1 \/ pc[i] = "idle")
       => Len(spans) = Cardinality({i \in Calls : Started(i) /\ ~FlagSet(i)})

C3_Witness ==
    /\ \A i \in Calls : pc[i] = "done" /\ resolved[i] = 1 /\ ~FlagSet(i)
    /\ Len(spans) = MaxCalls
    /\ request[1] = ReqNoModel
    /\ OriginalRaised(2)
    /\ \A k \in 1..Len(spans) : spans[k].name = "openai.chat"

(***************************************************************************)
(* C4.  Failure propagation: when the original raises, the caller gets     *)
(* that very exception, and the invocation's span carries the request      *)
(* attributes and no openai.chat.response.* attribute.                      *)
(***************************************************************************)
C4_FailurePropagation ==
    \A i \in Calls :
        (resolved[i] >= 1 /\ OriginalRaised(i))
        => /\ outcome[i] = delegated[i][1].outcome
           /\ Owned(i) # {}
           /\ \A k \in Owned(i) : DOMAIN spans[k].attributes = RequestKeys

C4_Witness ==
    \E i \in Calls :
        /\ pc[i] = "done" /\ resolved[i] >= 1 /\ OriginalRaised(i)
        /\ outcome[i] = Raised(RateLimitError)
        /\ \A k \in Owned(i) : spans[k].ended

(***************************************************************************)
(* C5.  Round trip: a call made after instrument() then uninstrument()     *)
(* is an unwrapped call: it reaches the original once, the caller gets     *)
(* what the original returned or raised, no span is started, and the       *)
(* suppression flag is not consulted.                                       *)
(***************************************************************************)
C5_RoundTrip ==
    \A i \in Calls :
        (pc[i] # "idle" /\ seen[i] = <<"instrument", "uninstrument">>)
        => /\ resolved[i] = 0
           /\ Owned(i) = {}
           /\ pc[i] = "done"
                => /\ Len(delegated[i]) = 1
                   /\ delegated[i][1].args = request[i].args
                   /\ delegated[i][1].kwargs = request[i].kwargs
                   /\ outcome[i] = delegated[i][1].outcome

C5_Witness ==
    \E i \in Calls :
        /\ pc[i] = "done"
        /\ seen[i] = <<"instrument", "uninstrument">>
        /\ FlagSet(i)
        /\ OriginalReturned(i)
        /\ outcome[i] = delegated[i][1].outcome
        /\ spans = <<>>

(***************************************************************************)
(* C6.  Defaults if and only if absent: on the span of a request that      *)
(* names its model, each optional field's attribute holds the supplied     *)
(* value when the key is among the keyword arguments, falsy and zero       *)
(* values included, and the documented default when it is not.             *)
(***************************************************************************)
\* the defaults as documented (temperature=1.0, top_p=1.0, n=1,
\* stream=false, stop="", max_tokens=+infinity, presence_penalty=0.0,
\* frequency_penalty=0.0, logit_bias="", name="")
DocumentedDefault ==
    [temperature |-> "1.0", top_p |-> "1.0", n |-> "1", stream |-> "False",
     stop |-> "", max_tokens |-> "inf", presence_penalty |-> "0.0",
     frequency_penalty |-> "0.0", logit_bias |-> "", name |-> ""]

C6_DefaultsIffAbsent ==
    \A k \in 1..Len(spans) :
        LET kwargs == request[spans[k].owner].kwargs
            attributes == spans[k].attributes
        IN "model" \in DOMAIN kwargs
           => \A f \in DOMAIN DocumentedDefault :
                  LET key == "openai.chat." \o f
                  IN /\ key \in DOMAIN attributes
                     /\ f \in DOMAIN kwargs => attributes[key] = kwargs[f]
                     /\ f \notin DOMAIN kwargs
                            => attributes[key] = DocumentedDefault[f]

C6_Witness ==
    \E k \in 1..Len(spans) :
        LET kwargs == request[spans[k].owner].kwargs
            attributes == spans[k].attributes
        IN /\ {"model", "n", "stream", "temperature"} \subseteq DOMAIN kwargs
           /\ "max_tokens" \notin DOMAIN kwargs
           /\ kwargs["n"] = "0" /\ attributes["openai.chat.n"] = "0"
           /\ kwargs["stream"] = "False"
           /\ attributes["openai.chat.stream"] = "False"
           /\ attributes["openai.chat.temperature"] = "0"
           /\ attributes["openai.chat.max_tokens"] = "inf"

(***************************************************************************)
(* C7.  Choice flattening: for a response that carries id, object,         *)
(* created and k well-formed choices, the span receives the attributes     *)
(* openai.chat.response.choices.<i>.message.role, .message.content and     *)
(* .finish_reason for i = 0..k-1 and for no other index, group i holding   *)
(* the values of the i-th choice.                                           *)
(***************************************************************************)
WellFormedChoice(c) ==
    /\ {"message", "finish_reason"} \subseteq DOMAIN c
    /\ {"role", "content"} \subseteq DOMAIN c["message"]

\* the response reaches the end of the loop over its choices
ChoicesProjectable(v) ==
    /\ v.ty = "dict"
    /\ {"id", "object", "created", "choices"} \subseteq DOMAIN v.items
    /\ \A j \in 1..Len(v.items["choices"]) :
           WellFormedChoice(v.items["choices"][j])

ChoiceKey(index, suffix) ==
    "openai.chat.response.choices." \o ToString(index) \o suffix

C7_ChoiceFlattening ==
    \A k \in 1..Len(spans) :
        LET i == spans[k].owner
            attributes == spans[k].attributes
        IN (spans[k].ended /\ OriginalReturned(i)
                /\ ChoicesProjectable(delegated[i][1].outcome.val))
           => LET choices == delegated[i][1].outcome.val.items["choices"]
              IN /\ DOMAIN attributes \ (RequestKeys \cup ResponseScalarKeys)
                      = {ChoiceKey(x, sfx) :
                            x \in 0..(Len(choices) - 1),
                            sfx \in {".message.role", ".message.content",
                                     ".finish_reason"}}
                 /\ \A x \in 0..(Len(choices) - 1) :
                        /\ attributes[ChoiceKey(x, ".message.role")]
                               = choices[x + 1]["message"]["role"]
                        /\ attributes[ChoiceKey(x, ".message.content")]
                               = choices[x + 1]["message"]["content"]
                        /\ attributes[ChoiceKey(x, ".finish_reason")]
                               = choices[x + 1]["finish_reason"]

C7_Witness ==
    \E k \in 1..Len(spans) :
        LET i == spans[k].owner
            attributes == spans[k].attributes
        IN /\ spans[k].ended /\ OriginalReturned(i)
           /\ delegated[i][1].outcome
                  = Returned(Dict(Completion(<<ChoiceStop, ChoiceLength>>)))
           /\ attributes["openai.chat.response.choices.0.finish_reason"] = "stop"
           /\ attributes["openai.chat.response.choices.1.message.content"]
                  = "Hi there"
           /\ "openai.chat.response.choices.2.finish_reason"
                  \notin DOMAIN attributes

(***************************************************************************)
(* C8.  Message flattening: for m {role, content} messages the attribute   *)
(* openai.chat.messages is their lines "<role>: <content>\n" one after     *)
(* the other in the order of the list (the empty string when m = 0), and   *)
(* it is on the span before the original method is called.                  *)
(***************************************************************************)
MessageLine(m) == m["role"] \o ": " \o m["content"] \o "\n"

\* the length of the lines of the first j messages
RECURSIVE LinesLength(_, _)
LinesLength(msgs, j) ==
    IF j = 0 THEN 0
    ELSE LinesLength(msgs, j - 1)
         + Len(msgs[j]["role"]) + Len(msgs[j]["content"]) + 3

NewlinesIn(str) == Cardinality({p \in 1..Len(str) : SubSeq(str, p, p) = "\n"})

C8_MessageFlattening ==
    /\ \A k \in 1..Len(spans) :
        LET kwargs == request[spans[k].owner].kwargs
            attributes == spans[k].attributes
        IN ValidRequest(kwargs)
           => /\ "openai.chat.messages" \in DOMAIN attributes
              /\ LET msgs == kwargs["messages"]
                     str == attributes["openai.chat.messages"]
                 IN /\ Len(str) = LinesLength(msgs, Len(msgs))
                    /\ \A j \in 1..Len(msgs) :
                           SubSeq(str, LinesLength(msgs, j - 1) + 1,
                                  LinesLength(msgs, j)) = MessageLine(msgs[j])
                    /\ msgs = <<>> => str = ""
                    /\ (\A j \in 1..Len(msgs) :
                            NewlinesIn(msgs[j]["role"]) = 0
                            /\ NewlinesIn(msgs[j]["content"]) = 0)
                       => NewlinesIn(str) = Len(msgs)
    /\ \A i \in Calls :
           (pc[i] = "call" /\ layers[i] = 0 /\ resolved[i] >= 1)
           => \E k \in Owned(i) :
                  "openai.chat.messages" \in DOMAIN spans[k].attributes

C8_Witness ==
    \E i \in Calls :
        /\ pc[i] = "call" /\ layers[i] = 0 /\ delegated[i] = <<>>
        /\ request[i].kwargs["messages"] = <<MsgUserHi, MsgAssistantHello>>
        /\ \E k \in Owned(i) :
               spans[k].attributes["openai.chat.messages"]
                   = "user: Hi\nassistant: Hello\n"

(***************************************************************************)
(* C9.  Overlapping invocations are independent: each has a span of its    *)
(* own, and the attributes on a span come from the keyword arguments and   *)
(* the response of the invocation that started it and from nothing else,   *)
(* in every interleaving.                                                   *)
(***************************************************************************)
\* what the request and the response of the span's own invocation give
OwnAttributes(k) ==
    LET i == spans[k].owner
        fromRequest == project_request(NoAttributes, request[i].kwargs).attributes
    IN IF spans[k].ended /\ OriginalReturned(i)
       THEN project_response(fromRequest, delegated[i][1].outcome.val).attributes
       ELSE fromRequest

C9_Independent ==
    /\ \A i, j \in Calls :
           i # j => Range(stack[i]) \cap Range(stack[j]) = {}
    /\ \A i \in Calls : Range(stack[i]) \subseteq Owned(i)
    /\ \A k \in 1..Len(spans) : spans[k].attributes = OwnAttributes(k)

C9_Witness ==
    /\ Len(spans) = 2
    /\ spans[1].owner = 2 /\ spans[2].owner = 1
    /\ request[1] = ReqBasic /\ request[2] = ReqTuned
    /\ pc[1] = "done" /\ OriginalReturned(1)
    /\ outcome[1] = Returned(Dict(Completion(<<ChoiceStop>>)))
    /\ pc[2] = "unwind" /\ ~spans[1].ended /\ spans[2].ended
    /\ "openai.chat.response.id" \in DOMAIN spans[2].attributes
    /\ spans[1].attributes["openai.chat.n"] = "0"

(***************************************************************************)
(* C10. Span lifetime: a span is open exactly while the wrapper that       *)
(* started it is running, so it is open across the call of the original    *)
(* and ended once its invocation has returned or raised, on every exit     *)
(* path: a normal return, an exception of the original, a missing request  *)
(* field, a missing response field.                                         *)
(***************************************************************************)
C10_SpanLifetime ==
    /\ \A k \in 1..Len(spans) :
           LET i == spans[k].owner
           IN /\ pc[i] = "done" => spans[k].ended
              /\ spans[k].ended <=> k \notin Range(stack[i])
    /\ \A i \in Calls :
           (pc[i] = "call" /\ layers[i] = 0 /\ ~FlagSet(i))
           => /\ Len(stack[i]) = resolved[i]
              /\ Cardinality(Owned(i)) = resolved[i]

C10_Witness ==
    \E i \in Calls :
        /\ pc[i] = "done" /\ resolved[i] = 2
        /\ OriginalReturned(i)
        /\ outcome[i] = Raised(KeyError("id"))
        /\ Cardinality(Owned(i)) = 2
        /\ \A k \in Owned(i) : spans[k].ended

=============================================================================
